---- MODULE Spec2Model ----
(***************************************************************************)
(* A model of madness-rs (src/lib.rs): the bracket codec                   *)
(* (Decisions::decision_team_slots), the scoring engine                    *)
(* (Bracket::points_for_decisions), the outcome enumerator                 *)
(* (BestFinishes::calc) and the rank aggregator (BestFinishes::merge).     *)
(*                                                                         *)
(* A u64 bitmask is modelled as the set of its set bit positions, a subset *)
(* of 0..63: (1 << i) & m != 0 is i \in m.  An Option<u8> is the value or  *)
(* None.  A table [Option<u8>; 64] is a function on 0..63.  A              *)
(* HashMap<Bracket, usize> is a function whose domain is its key set.      *)
(***************************************************************************)
EXTENDS Integers, Sequences, FiniteSets, TLC

VARIABLES
    tournament,             \* Tournament { decisions, mask }
    brackets,               \* the pool handed to calc: a sequence of Bracket
    tournament_team_slots,  \* the table buffer calc mutates
    decoded,                \* the table decision_team_slots returned
    stack,                  \* the activation records of BestFinishes::calc
    child_results,          \* the record the last returning call handed back
    pc,                     \* where the caller is
    lastop,                 \* the step of calc that ran last
    leaves,                 \* the tables seen at the resolution leaves
    touched,                \* the table indices the last step read or wrote
    points,                 \* the result of points_for_decisions
    rec_self,               \* merge: self before the call
    rec_other,              \* merge: other
    rec_out                 \* merge: self after the call

vars == <<tournament, brackets, tournament_team_slots, decoded, stack,
          child_results, pc, lastop, leaves, touched, points,
          rec_self, rec_other, rec_out>>

----------------------------------------------------------------------------
(* Bounds of the model. *)

\* calc: at most this many games are left unsettled in the tournament mask
MaxUnsettled == 3
\* calc: the pool is a slice of at most this many entries of PoolSource
MaxPool == 7
\* codec: at most this many games are varied in the settled mask
MaxMaskVaried == 3
\* merge: the largest rank in the records that are merged
MaxMergeRank == 3

----------------------------------------------------------------------------
(* Constants of the program. *)

None == -1

Indices == 0 .. 63

COMPLETE_MASK == 1 .. 63

POINTS_PER_ROUND == <<0, 1, 2, 3, 5, 8, 13>>

SEED_ORDER == <<1, 16, 8, 9, 5, 12, 4, 13, 6, 11, 3, 14, 7, 10, 2, 15>>

seed_for_slot_mod8(slot) == SEED_ORDER[(slot % 8) + 1]

seed_for_slot(slot) == SEED_ORDER[(slot % 16) + 1]

RECURSIVE floor_log2(_)
floor_log2(n) == IF n <= 1 THEN 0 ELSE 1 + floor_log2(n \div 2)

\* f64::from(slot).log2().floor() as u8: log2(0) is -inf, which the cast
\* saturates to 0
log2_floor_u8(slot) == IF slot = 0 THEN 0 ELSE floor_log2(slot)

round_num_for_slot(slot) ==
    LET depth == log2_floor_u8(slot) + 1
    IN  7 - depth

----------------------------------------------------------------------------
(* Decisions::decision_team_slots *)

EmptyTable == [i \in Indices |-> None]

decision_bit(decisions, i) == IF i \notin decisions THEN 0 ELSE 1

slot_position_left(i, decision) == i * 2

slot_position_other(i, decision) == (i * 2) + (1 - decision)

slot_position(i, decision) == (i * 2) + decision

\* the body of the loop for one i
decode_step(i, res, decisions, mask) ==
    IF i \in mask
    THEN LET decision == decision_bit(decisions, i)
             position == slot_position(i, decision)
         IN  [res EXCEPT ![i] = IF i >= 32 THEN position ELSE res[position]]
    ELSE res

\* for i in (lo..=hi).rev(): the steps hi, hi - 1, ..., lo applied in that
\* order.  The range is split in two, and res is compared with itself (which
\* is TRUE) so that it is evaluated before the steps that use it: both only
\* keep the evaluation shallow.
RECURSIVE decode_loop(_, _, _, _, _)
decode_loop(hi, lo, res, decisions, mask) ==
    IF hi = lo \/ res # res THEN decode_step(hi, res, decisions, mask)
    ELSE LET mid == (hi + lo) \div 2
         IN  decode_loop(mid, lo,
                         decode_loop(hi, mid + 1, res, decisions, mask),
                         decisions, mask)

decision_team_slots(decisions, mask) ==
    decode_loop(63, 1, EmptyTable, decisions, mask)

\* the indices of res the loop reads or writes
decode_accesses(decisions, mask) ==
    UNION {{i} \cup (IF i < 32
                     THEN {slot_position(i, decision_bit(decisions, i))}
                     ELSE {}) : i \in (1 .. 63) \cap mask}

Tournament_slots(t) == decision_team_slots(t.decisions, t.mask)

Bracket_slots(b) == decision_team_slots(b.decisions, COMPLETE_MASK)

----------------------------------------------------------------------------
(* Bracket::points_for_decisions *)

\* the closure of the fold for one (i, t)
points_step(i, acc, bracket_team_slots, tts) ==
    LET t == tts[i]
        b == bracket_team_slots[i]
    IN  IF t # None /\ b # None /\ t = b
        THEN acc + POINTS_PER_ROUND[round_num_for_slot(i) + 1]
                 + seed_for_slot(b)
        ELSE acc

\* enumerate().fold over the indices lo, lo + 1, ..., hi in that order.  The
\* range is split in two, and acc is compared with itself (which is TRUE) so
\* that it is evaluated before the steps that use it: both only keep the
\* evaluation shallow.
RECURSIVE points_fold(_, _, _, _, _)
points_fold(lo, hi, acc, bracket_team_slots, tts) ==
    IF lo = hi \/ acc # acc THEN points_step(lo, acc, bracket_team_slots, tts)
    ELSE LET mid == (lo + hi) \div 2
         IN  points_fold(mid + 1, hi,
                         points_fold(lo, mid, acc, bracket_team_slots, tts),
                         bracket_team_slots, tts)

points_for_decisions(self, tts) ==
    points_fold(0, 63, 0, Bracket_slots(self), tts)

----------------------------------------------------------------------------
(* BestFinishes: possible_finishes, merge *)

\* BestFinishes::new
EmptyFinishes == [b \in {} |-> 0]

\* HashMap::insert
insert(pf, b, rank) ==
    [x \in (DOMAIN pf) \cup {b} |-> IF x = b THEN rank ELSE pf[x]]

merge_takes_worse(self, b, rank) ==
    b \notin DOMAIN self \/ self[b] < rank

\* current_rank.is_none() || *current_rank.unwrap() > rank
merge_takes(self, b, rank) ==
    b \notin DOMAIN self \/ self[b] > rank

RECURSIVE merge_fold(_, _, _)
merge_fold(self, other, keys) ==
    IF keys = {} THEN self
    ELSE LET b == CHOOSE k \in keys : TRUE
             rank == other[b]
             self1 == IF merge_takes(self, b, rank)
                      THEN insert(self, b, rank)
                      ELSE self
         IN  merge_fold(self1, other, keys \ {b})

merge(self, other) == merge_fold(self, other, DOMAIN other)

----------------------------------------------------------------------------
(* BestFinishes::calc, the resolution leaf (the else branch) *)

score_tuples(pool, tts) ==
    [i \in 1 .. Len(pool) |->
        [b |-> pool[i], pts |-> points_for_decisions(pool[i], tts)]]

\* sort_by(|(_, r1), (_, r2)| r2.cmp(r1)): stable, descending by points
sorted_insert(s, x) ==
    LET pos == Cardinality({j \in 1 .. Len(s) : s[j].pts >= x.pts})
    IN  SubSeq(s, 1, pos) \o <<x>> \o SubSeq(s, pos + 1, Len(s))

RECURSIVE sort_from(_, _, _)
sort_from(tuples, i, acc) ==
    IF i > Len(tuples) THEN acc
    ELSE sort_from(tuples, i + 1, sorted_insert(acc, tuples[i]))

sort_by_points_desc(tuples) == sort_from(tuples, 1, <<>>)

leaf_rank_dense(tuples, i, rank) ==
    IF i > 0 /\ tuples[i].pts # tuples[i + 1].pts THEN rank + 1 ELSE rank

\* the rank of the entry at 0-based position i of the sorted tuples
leaf_rank(tuples, i, rank) ==
    IF i > 0 /\ tuples[i].pts # tuples[i + 1].pts THEN i ELSE rank

RECURSIVE rank_loop(_, _, _, _)
rank_loop(tuples, i, rank, pf) ==
    IF i >= Len(tuples) THEN pf
    ELSE LET rank1 == leaf_rank(tuples, i, rank)
         IN  IF rank1 > 4 THEN pf
             ELSE rank_loop(tuples, i + 1, rank1,
                            insert(pf, tuples[i + 1].b, rank1))

calc_leaf(pool, tts) ==
    rank_loop(sort_by_points_desc(score_tuples(pool, tts)), 0, 0, EmptyFinishes)

----------------------------------------------------------------------------
(* BestFinishes::calc, the recursion *)

\* rposition(|x| x.is_none()): the last index holding None, or None
rposition_none(tts) ==
    IF \E i \in Indices : tts[i] = None
    THEN CHOOSE i \in Indices :
             tts[i] = None /\ \A j \in Indices : tts[j] = None => j <= i
    ELSE None

branches(tts) ==
    LET no_decision_idx == rposition_none(tts)
    IN  no_decision_idx # None /\ no_decision_idx # 0

restore_slot_skip(tts, idx) == tts

\* tournament_team_slots[no_decision_idx] = None
restore_slot(tts, idx) == [tts EXCEPT ![idx] = None]

NewFrame(tts) ==
    [pc |-> "start", idx |-> None, best_finishes |-> EmptyFinishes,
     entry |-> tts]

Top == stack[Len(stack)]

Caller == SubSeq(stack, 1, Len(stack) - 1)

----------------------------------------------------------------------------
(* The inputs the model draws from. *)

Bracket(decisions) == [decisions |-> decisions]

\* calc: the games whose settled bit is varied, and the decision bits varied
CalcGames == {1, 2, 3, 4, 7, 16, 33, 63}

CalcMasks ==
    {COMPLETE_MASK \ U :
        U \in {S \in SUBSET CalcGames : Cardinality(S) <= MaxUnsettled}}

CalcTournaments ==
    {[decisions |-> d, mask |-> m] : d \in SUBSET {1, 2, 8}, m \in CalcMasks}

\* calc: the tournaments every slice of the pool is tried on
PoolTournaments ==
    {[decisions |-> d, mask |-> COMPLETE_MASK \ U] :
        d \in {{}, {1}, {3, 63}}, U \in {{}, {1}, {2}, {3}, {2, 3}, {63}}}

PoolSource ==
    <<Bracket({}), Bracket({33}), Bracket({49}), Bracket({34}), Bracket({32}),
      Bracket({33}), Bracket({1}), Bracket({2, 33}), Bracket({3}),
      Bracket({1, 63})>>

Pools ==
    {SubSeq(PoolSource, lo, hi) : lo \in 1 .. MaxPool, hi \in 0 .. MaxPool}

CalcInputs ==
    {<<t, SubSeq(PoolSource, 1, MaxPool)>> : t \in CalcTournaments}
    \cup (PoolTournaments \X Pools)

\* codec and scoring
CodecGames == {0, 1, 2, 3, 4, 5, 8, 16, 32, 33, 63}

CodecVaried == {S \in SUBSET CodecGames : Cardinality(S) <= MaxMaskVaried}

CodecMasks == CodecVaried \cup {(0 .. 63) \ S : S \in CodecVaried}

CodecTournaments ==
    {[decisions |-> d, mask |-> m] :
        d \in SUBSET {1, 2, 4, 32}, m \in CodecMasks}

ScoreBrackets == {Bracket({}), Bracket({1, 2}), Bracket({32, 33, 3})}

\* merge
MergeKeys == {Bracket({}), Bracket({1}), Bracket({2})}

MergeRecords ==
    UNION {[K -> 0 .. MaxMergeRank] : K \in SUBSET MergeKeys}

----------------------------------------------------------------------------
(* The caller: decode the tournament, then call calc on the table. *)

Idle ==
    /\ tournament_team_slots = EmptyTable
    /\ decoded = EmptyTable
    /\ stack = <<>>
    /\ child_results = EmptyFinishes
    /\ lastop = "none"
    /\ leaves = {}
    /\ touched = {}
    /\ points = 0

Init ==
    /\ \E in \in CalcInputs : tournament = in[1] /\ brackets = in[2]
    /\ pc = "init"
    /\ Idle
    /\ rec_self = EmptyFinishes
    /\ rec_other = EmptyFinishes
    /\ rec_out = EmptyFinishes

\* let mut slots = tournament.decision_team_slots();
Decode ==
    /\ pc = "init"
    /\ decoded' = Tournament_slots(tournament)
    /\ tournament_team_slots' = decoded'
    /\ touched' = decode_accesses(tournament.decisions, tournament.mask)
    /\ lastop' = "decode"
    /\ pc' = "ready"
    /\ UNCHANGED <<tournament, brackets, stack, child_results, leaves, points,
                   rec_self, rec_other, rec_out>>

\* BestFinishes::calc(&brackets, &mut slots)
CalcCall ==
    /\ pc = "ready"
    /\ stack' = <<NewFrame(tournament_team_slots)>>
    /\ pc' = "calc"
    /\ lastop' = "call"
    /\ touched' = {}
    /\ UNCHANGED <<tournament, brackets, tournament_team_slots, decoded,
                   child_results, leaves, points, rec_self, rec_other, rec_out>>

\* the call returns `record`: its frame is popped
Return(record) ==
    /\ stack' = Caller
    /\ child_results' = record
    /\ pc' = IF Len(stack) = 1 THEN "done" ELSE "calc"

\* lines 117-121: decision 0, and the first recursive call; the read of
\* slot 2 * idx of a 64-entry table panics when idx >= 32
CalcBranch0 ==
    /\ pc = "calc"
    /\ Top.pc = "start"
    /\ branches(tournament_team_slots)
    /\ LET idx == rposition_none(tournament_team_slots)
       IN  IF idx * 2 \notin Indices
           THEN /\ pc' = "panic"
                /\ touched' = {idx * 2}
                /\ UNCHANGED <<tournament_team_slots, stack>>
           ELSE /\ tournament_team_slots' =
                       [tournament_team_slots EXCEPT
                           ![idx] = tournament_team_slots[idx * 2]]
                /\ stack' = Caller \o
                       <<[Top EXCEPT !.pc = "after0", !.idx = idx],
                         NewFrame(tournament_team_slots')>>
                /\ touched' = {idx, idx * 2}
                /\ pc' = "calc"
    /\ lastop' = "branch0"
    /\ UNCHANGED <<tournament, brackets, decoded, child_results, leaves,
                   points, rec_self, rec_other, rec_out>>

\* lines 131-150: the resolution leaf
CalcLeaf ==
    /\ pc = "calc"
    /\ Top.pc = "start"
    /\ ~branches(tournament_team_slots)
    /\ Return(calc_leaf(brackets, tournament_team_slots))
    /\ leaves' = leaves \cup {tournament_team_slots}
    /\ touched' = Indices
    /\ lastop' = "leaf"
    /\ UNCHANGED <<tournament, brackets, tournament_team_slots, decoded,
                   points, rec_self, rec_other, rec_out>>

\* lines 122-126: merge the first child's record, decision 1, second call
CalcBranch1 ==
    /\ pc = "calc"
    /\ Top.pc = "after0"
    /\ LET idx == Top.idx
       IN  /\ tournament_team_slots' =
                  [tournament_team_slots EXCEPT
                      ![idx] = tournament_team_slots[(idx * 2) + 1]]
           /\ stack' = Caller \o
                  <<[Top EXCEPT !.pc = "after1",
                                !.best_finishes =
                                    merge(Top.best_finishes, child_results)],
                    NewFrame(tournament_team_slots')>>
           /\ touched' = {idx, (idx * 2) + 1}
    /\ lastop' = "branch1"
    /\ UNCHANGED <<tournament, brackets, decoded, child_results, pc, leaves,
                   points, rec_self, rec_other, rec_out>>

\* lines 127-129 and 150: merge the second child's record, restore, return
CalcFinish ==
    /\ pc = "calc"
    /\ Top.pc = "after1"
    /\ tournament_team_slots' = restore_slot(tournament_team_slots, Top.idx)
    /\ Return(merge(Top.best_finishes, child_results))
    /\ touched' = {Top.idx}
    /\ lastop' = "finish"
    /\ UNCHANGED <<tournament, brackets, decoded, leaves, points,
                   rec_self, rec_other, rec_out>>

Next ==
    \/ Decode
    \/ CalcCall
    \/ CalcBranch0
    \/ CalcLeaf
    \/ CalcBranch1
    \/ CalcFinish

Spec == Init /\ [][Next]_vars

----------------------------------------------------------------------------
(* The codec and the scoring engine on their own. *)

InitCodec ==
    /\ tournament \in CodecTournaments
    /\ brackets \in {<<b>> : b \in ScoreBrackets}
    /\ pc = "init"
    /\ Idle
    /\ rec_self = EmptyFinishes
    /\ rec_other = EmptyFinishes
    /\ rec_out = EmptyFinishes

\* brackets[0].points_for_decisions(&slots)
Score ==
    /\ pc = "ready"
    /\ points' = points_for_decisions(brackets[1], tournament_team_slots)
    /\ touched' = Indices
    /\ lastop' = "score"
    /\ pc' = "scored"
    /\ UNCHANGED <<tournament, brackets, tournament_team_slots, decoded,
                   stack, child_results, leaves, rec_self, rec_other, rec_out>>

NextCodec == Decode \/ Score

SpecCodec == InitCodec /\ [][NextCodec]_vars

----------------------------------------------------------------------------
(* The rank aggregator on its own. *)

InitMerge ==
    /\ tournament = [decisions |-> {}, mask |-> {}]
    /\ brackets = <<>>
    /\ pc = "init"
    /\ Idle
    /\ rec_self \in MergeRecords
    /\ rec_other \in MergeRecords
    /\ rec_out = rec_self

\* self.merge(other)
Merge ==
    /\ pc = "init"
    /\ rec_out' = merge(rec_self, rec_other)
    /\ pc' = "merged"
    /\ lastop' = "merge"
    /\ UNCHANGED <<tournament, brackets, tournament_team_slots, decoded,
                   stack, child_results, leaves, touched, points,
                   rec_self, rec_other>>

NextMerge == Merge

SpecMerge == InitMerge /\ [][NextMerge]_vars

----------------------------------------------------------------------------
(* What the claims speak of. *)

Games == 1 .. 63

Bit(decisions, g) == IF g \in decisions THEN 1 ELSE 0

\* the chain of selected children from game i down to a first-round game
RECURSIVE ChainGames(_, _)
ChainGames(i, decisions) ==
    IF i >= 32 THEN {i}
    ELSE {i} \cup ChainGames((2 * i) + Bit(decisions, i), decisions)

\* the first-round game at the end of that chain
ChainLeaf(i, decisions) ==
    CHOOSE L \in ChainGames(i, decisions) : L >= 32

RoundOf(i) ==
    CASE i \in 32 .. 63 -> 1
      [] i \in 16 .. 31 -> 2
      [] i \in 8 .. 15 -> 3
      [] i \in 4 .. 7 -> 4
      [] i \in 2 .. 3 -> 5
      [] i = 1 -> 6

BasePoints == [r \in 1 .. 6 |-> <<1, 2, 3, 5, 8, 13>>[r]]

SeedOf(x) == SEED_ORDER[(x % 16) + 1]

\* what game i adds to the score of prediction table p against outcome o
Contribution(i, p, o) ==
    IF p[i] # None /\ o[i] # None /\ p[i] = o[i]
    THEN BasePoints[RoundOf(i)] + SeedOf(p[i])
    ELSE 0

RECURSIVE SumContributions(_, _, _, _)
SumContributions(lo, hi, p, o) ==
    IF lo = hi THEN Contribution(lo, p, o)
    ELSE LET mid == (lo + hi) \div 2
         IN  SumContributions(lo, mid, p, o)
                 + SumContributions(mid + 1, hi, p, o)

\* the same sequence, as an explicit tuple
Tuple(seq) == SubSeq(seq, 1, Len(seq))

\* the competition ranks of the pool against table o, and the record of the
\* entries ranked 0..4
PoolScores(pool, o) ==
    Tuple([k \in 1 .. Len(pool) |-> points_for_decisions(pool[k], o)])

CompetitionRanks(pool, o) ==
    LET sc == PoolScores(pool, o)
    IN  Tuple([k \in 1 .. Len(pool) |->
                  Cardinality({j \in 1 .. Len(pool) : sc[j] > sc[k]})])

TopFive(pool, ranks) ==
    LET kept == {k \in 1 .. Len(pool) : ranks[k] <= 4}
    IN  [b \in {pool[k] : k \in kept} |->
            ranks[CHOOSE k \in kept : pool[k] = b]]

\* the fully-settled outcomes that agree with tournament t on every game its
\* mask marks settled, and their decoded tables
Unsettled(t) == Games \ t.mask

Completions(t) ==
    {(t.decisions \cap t.mask \cap Games) \cup X : X \in SUBSET Unsettled(t)}

ConsistentTables(t) ==
    {decision_team_slots(c, COMPLETE_MASK) : c \in Completions(t)}

Min(S) == CHOOSE x \in S : \A y \in S : x <= y

\* the best rank each pool bracket reaches over the tables of T, kept when
\* it is at most 4
BestAchievable(pool, T) ==
    LET ranksAt == {CompetitionRanks(pool, o) : o \in T}
        best == Tuple([k \in 1 .. Len(pool) |->
                          Min({r[k] : r \in ranksAt})])
    IN  TopFive(pool, best)

Returned == pc \in {"done", "panic"}

----------------------------------------------------------------------------
(* The claims. *)

\* C1: for every pool and every table decoded from a (possibly partial)
\* tournament state, calc returns the record that maps each pool bracket to
\* its minimum leaf rank over the outcomes that resolve the undecided games,
\* holding exactly the brackets whose minimum is at most 4.
C1_BestRankReturned ==
    Returned =>
        /\ pc = "done"
        /\ child_results =
               BestAchievable(brackets, ConsistentTables(tournament))

\* C2: every table index that the codec, the scoring engine and the
\* enumerator read or write lies inside the 64-entry table, whatever subset
\* of the games is settled.
C2_AccessesInBounds == touched \subseteq Indices

\* C3: the tables reached at the leaves of calc are exactly the decoded
\* tables of the fully-settled outcomes that agree with the tournament on
\* every settled game: none contradicts a settled decision, none is missed.
C3_LeavesAreConsistentCompletions ==
    /\ leaves \subseteq ConsistentTables(tournament)
    /\ Returned => leaves = ConsistentTables(tournament)

\* C4: in the decoded table index 0 is absent, and game i is present exactly
\* when every game on its chain of selected children down to the first round
\* is settled; its value is then 2 * L + (decision bit of L), L the
\* first-round game ending the chain.
C4_DecodedIsChainEnd ==
    pc # "init" =>
        /\ DOMAIN decoded = Indices
        /\ decoded[0] = None
        /\ \A i \in Games :
              LET chain == ChainGames(i, tournament.decisions)
                  L == ChainLeaf(i, tournament.decisions)
              IN  /\ decoded[i] # None <=> chain \subseteq tournament.mask
                  /\ decoded[i] # None =>
                        decoded[i] = (2 * L) + Bit(tournament.decisions, L)

C4_Witness ==
    /\ pc = "ready"
    /\ 1 \in tournament.decisions
    /\ decoded[1] # None
    /\ \E j \in 1 .. 31 : j \in tournament.mask /\ decoded[j] = None
    /\ \E j \in 32 .. 63 : j \notin tournament.mask

\* C5: points_for_decisions is the sum over the games 1..63 where the
\* bracket's identity and the outcome's are both present and equal of
\* base_points[round_of(i)] + seed_of(identity); every other index adds 0.
C5_PointsAreSumOfMatches ==
    pc = "scored" =>
        points = SumContributions(1, 63, Bracket_slots(brackets[1]),
                                  tournament_team_slots)

C5_Witness ==
    /\ pc = "scored"
    /\ points > 0
    /\ \E i \in Games : tournament_team_slots[i] = None
    /\ \E i \in Games :
          /\ tournament_team_slots[i] # None
          /\ tournament_team_slots[i] # Bracket_slots(brackets[1])[i]
    /\ \E i \in 1 .. 31 :
          /\ tournament_team_slots[i] # None
          /\ tournament_team_slots[i] = Bracket_slots(brackets[1])[i]

\* C6: at a resolution leaf each pool bracket's rank is the number of pool
\* entries that score strictly more, and the leaf's record holds exactly the
\* brackets ranked at most 4, each with that rank.
C6_LeafCompetitionRanking ==
    lastop = "leaf" =>
        child_results =
            TopFive(brackets,
                    CompetitionRanks(brackets, tournament_team_slots))

C6_Witness ==
    /\ lastop = "leaf"
    /\ LET r == CompetitionRanks(brackets, tournament_team_slots)
       IN  /\ \E k \in DOMAIN r : r[k] > 4
           /\ \E j, k \in DOMAIN r :
                 brackets[j] # brackets[k] /\ r[j] = r[k] /\ r[j] <= 4
           /\ \E k \in DOMAIN r :
                 r[k] \in 2 .. 4 /\ \A j \in DOMAIN r : r[j] # r[k] - 1

\* C7: after a.merge(b) the keys of a are the union of the two key sets, a
\* key of both maps to the smaller rank and a key of one keeps its rank; so
\* merge is commutative, associative and idempotent.
C7_MergeIsKeywiseMin ==
    pc = "merged" =>
        /\ DOMAIN rec_out = (DOMAIN rec_self) \cup (DOMAIN rec_other)
        /\ \A b \in DOMAIN rec_out :
              rec_out[b] =
                  IF b \in DOMAIN rec_self /\ b \in DOMAIN rec_other
                  THEN Min({rec_self[b], rec_other[b]})
                  ELSE IF b \in DOMAIN rec_self THEN rec_self[b]
                  ELSE rec_other[b]
        /\ rec_out = merge(rec_other, rec_self)
        /\ merge(rec_out, rec_other) = rec_out
        /\ merge(rec_self, rec_self) = rec_self
        /\ \A c \in MergeRecords :
              merge(rec_out, c) = merge(rec_self, merge(rec_other, c))

C7_Witness ==
    LET A == Bracket({})
        B == Bracket({1})
        C == Bracket({2})
    IN  /\ pc = "merged"
        /\ rec_self = [b \in {A, B} |-> IF b = A THEN 1 ELSE 3]
        /\ rec_other = [b \in {A, C} |-> IF b = A THEN 0 ELSE 2]
        /\ rec_out = [b \in {A, B, C} |->
                         IF b = A THEN 0 ELSE IF b = B THEN 3 ELSE 2]

\* C8 as stated: for every internal game i in 1..31, if the decoded identity
\* of either child 2i or 2i+1 is absent then that of i is absent.
C8_EitherChildAbsent ==
    pc # "init" =>
        \A i \in 1 .. 31 :
            (decoded[2 * i] = None \/ decoded[(2 * i) + 1] = None)
                => decoded[i] = None

\* C8 amended: for every internal game i in 1..31, if the decoded identity
\* of the selected child 2i + (decision bit of i) is absent then that of i is
\* absent.
C8_SelectedChildAbsent ==
    pc # "init" =>
        \A i \in 1 .. 31 :
            decoded[(2 * i) + Bit(tournament.decisions, i)] = None
                => decoded[i] = None

C8_Witness ==
    /\ pc = "ready"
    /\ \E i \in 1 .. 31 :
          /\ i \in tournament.mask
          /\ decoded[(2 * i) + Bit(tournament.decisions, i)] = None
          /\ decoded[(2 * i) + 1 - Bit(tournament.decisions, i)] # None
    /\ \E i \in 1 .. 31 :
          /\ decoded[i] # None
          /\ decoded[(2 * i) + 1 - Bit(tournament.decisions, i)] = None

\* C9: when a call of calc returns, the table is entry for entry the table
\* the call received; and the call made for the second branch of slot i
\* gets a table that differs from its caller's entry table at slot i only.
C9_StackDiscipline ==
    [][/\ Len(stack') < Len(stack) => tournament_team_slots' = Top.entry
       /\ (Len(stack') > Len(stack) /\ Len(stack) > 0) =>
             \A j \in Indices \ {stack'[Len(stack)].idx} :
                 stack'[Len(stack')].entry[j] = Top.entry[j]]_vars

C9_Witness ==
    /\ lastop = "finish"
    /\ Len(stack) >= 1
    /\ Top.pc = "after0"
    /\ Cardinality(leaves) >= 2

\* C10: the recursion depth of calc never exceeds the number of games the
\* settled mask leaves unsettled.
C10_DepthWithinUnsettled ==
    Len(stack) - 1 <= Cardinality(Unsettled(tournament))

====
